---- MODULE Spec2Model ----
(***************************************************************************)
(* Genetic algorithm for the multi-dimensional knapsack problem            *)
(* (src/main.py): population initialisation, binary tournament selection,  *)
(* uniform crossover, mutation, the simple and the fancy (Chu-Beasley)     *)
(* repair operators and the steady-state loop of find_ga.                  *)
(*                                                                         *)
(* Indices are 1-based here and 0-based in the source: item j of the       *)
(* source is item j+1 here, position j of the ranking u is position j+1,   *)
(* population row i is row i+1.  The generation counter t and the record   *)
(* index keep the source's 0-based values.                                 *)
(***************************************************************************)
EXTENDS Integers, Sequences, FiniteSets, TLC

\* ---------------------------------------------------------------- bounds
NItems == 3
NKnap == 2
MaxCost == 2
PopSize == 4
MaxIter == 3

\* tightness_ratio = .75 of the driver, as the fraction AlphaNum / AlphaDen
AlphaNum == 3
AlphaDen == 4

VARIABLES
    items,            \* problem.items (n)
    knapsacks,        \* problem.knapsacks (m)
    r,                \* problem.r : knapsack -> item -> cost
    b,                \* problem.b : knapsack -> capacity
    p,                \* problem.p : item -> profit
    k,                \* find_ga parameter k (population size)
    total_iterations, \* find_ga parameter
    repair_operator,  \* find_ga parameter: "simple", "fancy" or anything else
    u,                \* the utility ranking returned by repair_preprocess
    population,       \* row -> chromosome
    fitness,          \* row -> profit sum, as evaluated at line 306
    fitness_record,   \* generation (0-based) -> best fitness so far
    t,                \* generation counter
    C,                \* the child of the current generation
    S,                \* the argument S of a direct call of repair
    pc                \* position of the run

vars == <<items, knapsacks, r, b, p, k, total_iterations, repair_operator, u,
          population, fitness, fitness_record, t, C, S, pc>>

problemVars == <<items, knapsacks, r, b, p>>
paramVars == <<k, total_iterations, repair_operator>>

\* ------------------------------------------------------------ arithmetic
RECURSIVE SumTo(_, _)
SumTo(f, n) == IF n = 0 THEN 0 ELSE f[n] + SumTo(f, n - 1)

Items == 1..items
Knapsacks == 1..knapsacks
Chromosomes == [Items -> {0, 1}]
Zeros == [j \in Items |-> 0]
Rankings == {s \in [Items -> Items] : \A x, y \in Items : s[x] = s[y] => x = y}

\* np.sum(np.multiply(problem.r[:, :], S[:]), axis=1)
Usage(x) == [i \in Knapsacks |-> SumTo([j \in Items |-> r[i][j] * x[j]], items)]

\* np.greater(R[:], problem.b[:]).any()
Exceeds(R) == \E i \in Knapsacks : R[i] > b[i]

\* np.less_equal(R + problem.r[:, j], problem.b).all()
Fits(R, j) == \A i \in Knapsacks : R[i] + r[i][j] <= b[i]

AddItem(R, j) == [i \in Knapsacks |-> R[i] + r[i][j]]
DropItem(R, j) == [i \in Knapsacks |-> R[i] - r[i][j]]

\* evaluate_child_fitness
evaluate_child_fitness(child) == SumTo([j \in Items |-> p[j] * child[j]], items)

\* evaluate_pop_fitness
evaluate_pop_fitness(pop) == [i \in DOMAIN pop |-> evaluate_child_fitness(pop[i])]

\* ------------------------------------------------------- Problem.__init__
\* r is drawn from the integers 0..MaxCost (0..999 in the source), b is
\* int(alpha * row sum), p[j] is int(mean_i r[i][j] * q) for a q in [0, 1),
\* that is any integer x with x = 0 or x < (column sum) / m.
RowSum(rr, i, n) == SumTo([j \in 1..n |-> rr[i][j]], n)
ColSum(rr, j, m) == SumTo([i \in 1..m |-> rr[i][j]], m)
Capacity(rr, m, n) == [i \in 1..m |-> (AlphaNum * RowSum(rr, i, n)) \div AlphaDen]
Profits(rr, m, n) ==
    {pp \in [1..n -> 0..MaxCost] :
        \A j \in 1..n : pp[j] = 0 \/ pp[j] * m < ColSum(rr, j, m)}

ProblemInit(costs) ==
    /\ items = NItems
    /\ knapsacks = NKnap
    /\ r \in costs
    /\ b = Capacity(r, NKnap, NItems)
    /\ p \in Profits(r, NKnap, NItems)

\* every cost matrix within the bounds
AllCosts == [1..NKnap -> [1..NItems -> 0..MaxCost]]

\* the cost matrices of the runs of find_ga: no cost at all (every item
\* fits), and costs that let any two items fit but not all
RunCosts ==
    {rr \in AllCosts :
        \/ \A i \in 1..NKnap, j \in 1..NItems : rr[i][j] = 0
        \/ \A i \in 1..NKnap, j \in 1..NItems :
              rr[i][j] = IF (j - i) % NItems = 0 THEN 2 ELSE 1}

\* --------------------------------------------------------- initialize_pop
\* One row of initialize_pop for the shuffled list T: items are popped from
\* the end of T; popping from the empty list raises IndexError (ok = FALSE).
RECURSIVE init_row(_, _, _)
init_row(x, R, T) ==
    IF Len(T) = 0
    THEN [ok |-> FALSE, S |-> x]
    ELSE LET j == T[Len(T)] IN
         IF x[j] = 0 /\ Fits(R, j)
         THEN init_row([x EXCEPT ![j] = 1], AddItem(R, j), SubSeq(T, 1, Len(T) - 1))
         ELSE [ok |-> ~Exceeds(R), S |-> x]

\* the outcomes of the k rows, one shuffle per row
initialize_pop(N) == [1..N -> {init_row(Zeros, Usage(Zeros), T) : T \in Rankings}]

\* ------------------------------------------- binary_tournament_selection
\* np.argmax over the two drawn rows: the first one wins a tie
Winner(fit, T) == IF fit[T[1]] >= fit[T[2]] THEN T[1] ELSE T[2]

Draws(rows) == {T \in rows \X rows : T[1] # T[2]}

binary_tournament_selection(pop, tournament_fitness) ==
    {<<Winner(tournament_fitness, T_1), Winner(tournament_fitness, T_2)>> :
        <<T_1, T_2>> \in {d \in Draws(DOMAIN pop) \X Draws(DOMAIN pop) :
                            {d[1][1], d[1][2]} \cap {d[2][1], d[2][2]} = {}}}

\* ------------------------------------------------------ uniform_crossover
uniform_crossover(parent_1, parent_2, bits) ==
    [i \in Items |-> IF bits[i] = 0 THEN parent_1[i] ELSE parent_2[i]]

\* ----------------------------------------------------------------- mutate
mutate(child, mutation, i) ==
    IF mutation = 1 THEN child
    ELSE [child EXCEPT ![i] = IF @ = 0 THEN 1 ELSE 0]

\* every child selection, crossover and mutation can produce (lines 330-336)
Offspring ==
    {mutate(uniform_crossover(population[pp[1]], population[pp[2]], bits), mutation, i) :
        pp \in binary_tournament_selection(population, fitness),
        bits \in Chromosomes, mutation \in {0, 1}, i \in Items}

\* ----------------------------------------------------------- fancy_repair
\* DROP phase; j is the 1-based position in u; reading u past its end
\* raises IndexError (ok = FALSE)
RECURSIVE drop_phase(_, _, _)
drop_phase(x, R, j) ==
    IF ~Exceeds(R) THEN [ok |-> TRUE, S |-> x, R |-> R]
    ELSE IF j > items THEN [ok |-> FALSE, S |-> x, R |-> R]
    ELSE IF x[u[j]] = 1
         THEN drop_phase([x EXCEPT ![u[j]] = 0], DropItem(R, u[j]), j + 1)
         ELSE drop_phase(x, R, j + 1)

\* range(problem.items - 1, 0, -1): 0-based positions items-1 .. 1, that is
\* 1-based positions items .. 2
AddPositions == {j \in Items : j >= 2}

\* add_phase selecting every unselected item, fitting or not
RECURSIVE add_phase_nocheck(_, _, _)
add_phase_nocheck(x, R, j) ==
    IF j \notin AddPositions THEN [S |-> x, R |-> R]
    ELSE IF x[u[j]] = 0
         THEN add_phase_nocheck([x EXCEPT ![u[j]] = 1], AddItem(R, u[j]), j - 1)
         ELSE add_phase_nocheck(x, R, j - 1)

\* ADD phase from position j downwards
RECURSIVE add_phase(_, _, _)
add_phase(x, R, j) ==
    IF j \notin AddPositions THEN [S |-> x, R |-> R]
    ELSE IF x[u[j]] = 0 /\ Fits(R, u[j])
         THEN add_phase([x EXCEPT ![u[j]] = 1], AddItem(R, u[j]), j - 1)
         ELSE add_phase(x, R, j - 1)

fancy_repair(x, R) ==
    LET d == drop_phase(x, R, 1) IN
    IF ~d.ok THEN [ok |-> FALSE, S |-> x]
    ELSE LET a == add_phase(d.S, d.R, items) IN
         \* SANITY CHECK
         [ok |-> ~Exceeds(a.R), S |-> a.S]

\* ----------------------------------------------------------------- repair
\* simple_repair returning an infeasible chromosome as it is
simple_repair_keep(x, R) == x

\* simple_repair resetting a chromosome that exactly fills a knapsack
simple_repair_strict(x, R) == IF \E i \in Knapsacks : R[i] >= b[i] THEN Zeros ELSE x

simple_repair(x, R) == IF Exceeds(R) THEN Zeros ELSE x

repair(x, operator) ==
    LET R == Usage(x) IN
    IF operator = "simple" THEN [ok |-> TRUE, S |-> simple_repair(x, R)]
    ELSE IF operator = "fancy" THEN fancy_repair(x, R)
    ELSE [ok |-> FALSE, S |-> x]

\* ---------------------------------------------------------------- find_ga
Operators == {"simple", "fancy", "other"}

\* the state before find_ga(k, total_iterations, problem, repair_operator)
\* is entered
Init ==
    /\ ProblemInit(RunCosts)
    /\ k = PopSize
    /\ total_iterations \in 1..MaxIter
    /\ repair_operator \in Operators
    /\ u = <<>>
    /\ population = <<>>
    /\ fitness = <<>>
    /\ fitness_record = <<>>
    /\ t = 0
    /\ C = Zeros
    /\ S = Zeros
    /\ pc = "start"

\* np.argmax / np.argmin: the first index holding the extreme value
argmax(f) == CHOOSE i \in DOMAIN f :
    /\ \A x \in DOMAIN f : f[x] <= f[i]
    /\ \A x \in DOMAIN f : f[x] = f[i] => i <= x
argmin(f) == CHOOSE i \in DOMAIN f :
    /\ \A x \in DOMAIN f : f[x] >= f[i]
    /\ \A x \in DOMAIN f : f[x] = f[i] => i <= x

\* the duplicate test comparing the child with the first row only
InPopulation_first(child, pop) == pop[1] = child

\* C.tolist() in population.tolist()
InPopulation(child, pop) == \E i \in DOMAIN pop : pop[i] = child

\* lines 301-304: initialize_pop pops from the empty list T (IndexError);
\* the run ends before anything is assigned
InitializeRaises ==
    /\ pc = "start"
    /\ \E rows \in initialize_pop(k) : \E i \in 1..k : ~rows[i].ok
    /\ pc' = "error"
    /\ UNCHANGED <<problemVars, paramVars, u, population, fitness, fitness_record, t, C, S>>

\* lines 301-308: repair_preprocess raises, the linear program yielding no
\* dual vector (w is None) or fewer than the two entries line 214 reads
PreprocessRaises ==
    /\ pc = "start"
    /\ \E rows \in initialize_pop(k) : \A i \in 1..k : rows[i].ok
    /\ pc' = "error"
    /\ UNCHANGED <<problemVars, paramVars, u, population, fitness, fitness_record, t, C, S>>

\* lines 301-319
Initialize ==
    /\ pc = "start"
    /\ knapsacks >= 2
    /\ \E rows \in initialize_pop(k) :
        /\ \A i \in 1..k : rows[i].ok
        /\ population' = [i \in 1..k |-> rows[i].S]
        /\ fitness' = evaluate_pop_fitness(population')
    /\ u' \in Rankings
    /\ fitness_record' = [g \in 0..(total_iterations - 1) |->
                            IF g = 0 THEN fitness'[argmax(fitness')] ELSE 0]
    /\ t' = 1
    /\ pc' = "loop"
    /\ UNCHANGED <<problemVars, paramVars, C, S>>

\* lines 330-339 and 344-347: select, cross over, mutate, repair; repair
\* raising ends the run
NewChild ==
    \E c \in Offspring :
        LET res == repair(c, repair_operator) IN
        IF res.ok
        THEN C' = res.S /\ pc' = "check"
        ELSE C' = C /\ pc' = "error"

\* lines 322-339: carry the record over and produce the child
Generate ==
    /\ pc = "loop"
    /\ t < total_iterations
    /\ fitness_record' = [fitness_record EXCEPT ![t] = fitness_record[t - 1]]
    /\ NewChild
    /\ UNCHANGED <<problemVars, paramVars, u, population, fitness, t, S>>

\* lines 343-347: the child is in the population, produce a new one
Regenerate ==
    /\ pc = "check"
    /\ InPopulation(C, population)
    /\ NewChild
    /\ UNCHANGED <<problemVars, paramVars, u, population, fitness, fitness_record, t, S>>

\* update_record storing the child's fitness whatever the record holds
update_record_overwrite(record, g, C_fitness) == [record EXCEPT ![g] = C_fitness]

\* lines 357-358: the record of generation g becomes the child's fitness
\* only when that is strictly greater
update_record(record, g, C_fitness) ==
    IF C_fitness > record[g] THEN [record EXCEPT ![g] = C_fitness] ELSE record

\* lines 343, 349-362: evaluate the child, replace, update the record
Replace ==
    /\ pc = "check"
    /\ ~InPopulation(C, population)
    /\ LET C_fitness == evaluate_child_fitness(C)
           S_prime == argmin(fitness)
       IN /\ population' = IF C_fitness > fitness[S_prime]
                           THEN [population EXCEPT ![S_prime] = C]
                           ELSE population
          /\ fitness_record' = update_record(fitness_record, t, C_fitness)
    /\ t' = t + 1
    /\ pc' = "loop"
    /\ UNCHANGED <<problemVars, paramVars, u, fitness, C, S>>

\* lines 322, 364: the loop ends and the records are returned
Return ==
    /\ pc = "loop"
    /\ t >= total_iterations
    /\ pc' = "done"
    /\ UNCHANGED <<problemVars, paramVars, u, population, fitness, fitness_record, t, C, S>>

Next ==
    \/ InitializeRaises
    \/ PreprocessRaises
    \/ Initialize
    \/ Generate
    \/ Regenerate
    \/ Replace
    \/ Return

Spec == Init /\ [][Next]_vars

\* The runs with the fancy strategy and one generation after the initial
\* one, under fair random choices: the run never pauses, and every child
\* that stays possible in the duplicate-rejection loop is eventually drawn.
FairInit ==
    /\ Init
    /\ repair_operator = "fancy"
    /\ total_iterations = 2

FairSpec ==
    /\ FairInit
    /\ [][Next]_vars
    /\ WF_vars(Next)
    /\ \A c \in [1..NItems -> {0, 1}] : SF_vars(Regenerate /\ C' = c)

\* ------------------------------------------------- repair, called directly
\* repair(S, problem, operator, u) on any chromosome S, any problem of the
\* generator and any ranking u.  S keeps the argument as passed; C holds the
\* returned chromosome.
InitRepair ==
    /\ ProblemInit(AllCosts)
    /\ k = PopSize
    /\ total_iterations = 1
    /\ repair_operator \in Operators
    /\ u \in Rankings
    /\ population = <<>>
    /\ fitness = <<>>
    /\ fitness_record = <<>>
    /\ t = 0
    /\ S \in Chromosomes
    /\ C = S
    /\ pc = "call"

\* lines 258-283
CallRepair ==
    /\ pc = "call"
    /\ LET res == repair(S, repair_operator) IN
        IF res.ok
        THEN C' = res.S /\ pc' = "returned"
        ELSE C' = C /\ pc' = "raised"
    /\ UNCHANGED <<problemVars, paramVars, u, population, fitness, fitness_record, t, S>>

NextRepair == CallRepair

RepairSpec == InitRepair /\ [][NextRepair]_vars

\* ================================================================= claims
Rows == DOMAIN population
Profit(x) == SumTo([j \in Items |-> p[j] * x[j]], items)
RowFeasible(x) == \A i \in Knapsacks : SumTo([j \in Items |-> r[i][j] * x[j]], items) <= b[i]
Keeps(x, y) == \A j \in Items : x[j] = 1 => y[j] = 1

\* C1: once the population is initialised, and after every generation,
\* every row of the population keeps every knapsack within its capacity.
C1_Feasibility == \A i \in Rows : RowFeasible(population[i])

\* a child has been inserted into the population at the end of a generation
C1_Witness ==
    /\ pc = "loop" /\ t >= 2
    /\ \E i \in Rows : population[i] = C /\ C # Zeros

\* C2: at the end of every generation each entry of the fitness vector is
\* the profit sum of its population row.
C2_FitnessFresh ==
    pc \in {"loop", "done"} => \A i \in Rows : fitness[i] = Profit(population[i])

\* C3: the fitness record never decreases from one generation to the next,
\* and the record of the generation just finished is the carried-forward
\* record unless the child's fitness strictly exceeds it.
C3_Elitism ==
    /\ \A g \in DOMAIN fitness_record :
          (1 <= g /\ g < t) => fitness_record[g] >= fitness_record[g - 1]
    /\ (pc = "loop" /\ t >= 2) =>
          fitness_record[t - 1] = IF Profit(C) > fitness_record[t - 2]
                                  THEN Profit(C)
                                  ELSE fitness_record[t - 2]

\* a generation whose child raised the record
C3_Witness ==
    /\ pc = "loop" /\ t >= 2
    /\ fitness_record[t - 1] > fitness_record[t - 2]

\* C4 as stated: repair returns a feasible chromosome unchanged, under
\* either strategy.
C4_Idempotent == (pc = "returned" /\ RowFeasible(S)) => C = S

\* no unselected item fits next to x
NothingFits(x) ==
    \A j \in Items : x[j] = 0 =>
        \E i \in Knapsacks : SumTo([jj \in Items |-> r[i][jj] * x[jj]], items) + r[i][j] > b[i]

\* C4 amended: the simple strategy returns a feasible chromosome unchanged;
\* the fancy strategy keeps every selected item of a feasible chromosome,
\* returns a feasible chromosome, and returns its argument unchanged when
\* no unselected item fits.
C4_Amended ==
    (pc = "returned" /\ RowFeasible(S)) =>
        /\ repair_operator = "simple" => C = S
        /\ repair_operator = "fancy" =>
              /\ Keeps(S, C)
              /\ RowFeasible(C)
              /\ NothingFits(S) => C = S

\* the fancy strategy has returned a feasible, non-empty argument unchanged
C4_Witness ==
    /\ pc = "returned" /\ RowFeasible(S) /\ S # Zeros /\ C = S
    /\ repair_operator = "fancy"
    /\ \E i \in Knapsacks : b[i] > 0

\* C5: the drop phase of fancy_repair ends within the ranking with every
\* knapsack within capacity, the add phase keeps every item selected after
\* the drop phase and stays within capacity, and the call returns a feasible
\* chromosome instead of raising.
C5_FancyCorrect ==
    (pc # "call" /\ repair_operator = "fancy") =>
        LET d == drop_phase(S, Usage(S), 1)
            a == add_phase(d.S, d.R, items)
        IN /\ d.ok
           /\ RowFeasible(d.S)
           /\ Keeps(d.S, a.S)
           /\ RowFeasible(a.S)
           /\ pc = "returned"
           /\ C = a.S
           /\ RowFeasible(C)

\* an infeasible argument lost an item in the drop phase and gained another
\* in the add phase
C5_Witness ==
    /\ pc = "returned" /\ repair_operator = "fancy"
    /\ ~RowFeasible(S)
    /\ \E j \in Items : S[j] = 1 /\ C[j] = 0
    /\ \E j \in Items : S[j] = 0 /\ C[j] = 1

\* C6: the child that is evaluated and considered for replacement equals no
\* row of the population, and a child equal to a row is discarded: the
\* generation goes on with a new child (or the run ends in an error), the
\* population and the generation counter untouched.
C6_DuplicateRejection ==
    [][ /\ (pc = "check" /\ pc' = "loop") => \A i \in Rows : population[i] # C
        /\ (pc = "check" /\ \E i \in Rows : population[i] = C) =>
              /\ pc' \in {"check", "error"}
              /\ population' = population
              /\ t' = t ]_vars

\* a repaired child that equals a row of the population
C6_Witness == pc = "check" /\ \E i \in Rows : population[i] = C

\* C7: every run ends, returning the records or aborting.
C7_Terminates == <>(pc \in {"done", "error"})

\* C8: a run with an unrecognised repair strategy never returns records.
C8_ConfigError == (repair_operator \notin {"simple", "fancy"}) => pc # "done"

\* C9: a row overwritten by the child has the lowest profit of the
\* population and a profit strictly below the child's fitness.
C9_ReplacesWorst ==
    [][ (pc = "check" /\ pc' = "loop") =>
           \A i \in Rows : population'[i] # population[i] =>
              /\ \A x \in Rows : Profit(population[i]) <= Profit(population[x])
              /\ Profit(population[i]) < Profit(C) ]_vars

\* C10: in the chromosome fancy_repair returns no unselected item fits.
C10_AddCoversAll ==
    (pc = "returned" /\ repair_operator = "fancy") =>
        \A j \in Items : C[j] = 0 =>
            \E i \in Knapsacks : SumTo([jj \in Items |-> r[i][jj] * C[jj]], items) + r[i][j] > b[i]

====
